---- MODULE Spec2Model ----
(***************************************************************************)
(* A model of github.com/elliotforbes/fakes: the FakeService of fakes.go,  *)
(* its Endpoint registry, the per-endpoint call counter guarded by a       *)
(* mutex, the chaos decision of the request handler, the rendering of the  *)
(* response, Run and TidyUp.                                               *)
(***************************************************************************)
EXTENDS Integers, Sequences, FiniteSets, TLC

\* ---------------------------------------------------------------- bounds
MaxRequests == 4      \* requests the test client issues in one run
MaxWorkers  == 2      \* requests the HTTP server handles at the same time

\* ------------------------------------------------------ program constants
DefaultMaxFailureCount == 3     \* fakes.go: e.MaxFailureCount = 3
RandRange              == 100   \* fakes.go: rand.Intn(100)
StatusOK               == 200   \* fakes.go: status = http.StatusOK
StatusBadRequest       == 400   \* README.md: c.JSON(http.StatusBadRequest, ...)
FixedPort              == 10000 \* fakes_test.go: fakes.WithPort(10000)
SampleSize             == 10    \* fakes_test.go: for range 10

\* the methods Endpoint() fills in when e.Methods is empty
AllMethodsButConnect ==
    <<"GET", "DELETE", "HEAD", "OPTIONS", "PATCH", "POST", "PUT", "TRACE">>
AllMethods ==
    <<"GET", "DELETE", "HEAD", "OPTIONS", "PATCH", "POST", "PUT", "TRACE",
      "CONNECT">>

Range(s) == {s[i] : i \in DOMAIN s}

\* http.Header with no entry
NoHeaders == [x \in {} |-> <<>>]

\* -------------------------------------------------------- input domains
Rates   == {0, 50, 100}             \* FailureRatePercent values
Givens  == {0, 5}                   \* MaxFailureCount as written by the caller
Ports   == {0, FixedPort}           \* New() and New(WithPort(10000))

\* an endpoint with only Path and Response set, as in the examples
Plain(path) ==
    [Path |-> path, Response |-> "{}", StatusCode |-> 0, Methods |-> <<>>,
     ContentType |-> "", Headers |-> NoHeaders, Handler |-> FALSE,
     FailureRatePercent |-> 0, FailureHandler |-> FALSE,
     MaxFailureCount |-> 0, Expectation |-> FALSE]

\* the endpoints a test registers, each path at most once: "/" with any
\* chaos configuration, "/hello" as the plain endpoint of the examples
Fixtures ==
    {[Plain("/") EXCEPT !.FailureRatePercent = r, !.FailureHandler = h,
                        !.MaxFailureCount = m] :
        r \in Rates, h \in BOOLEAN, m \in Givens}
    \cup {Plain("/hello")}

\* the endpoints of the sequential runs: "/" with every rendering option
SeqFixtures ==
    {[Plain("/") EXCEPT !.FailureRatePercent = r, !.FailureHandler = TRUE,
                        !.Methods = ms, !.Headers = hs, !.ContentType = ct,
                        !.StatusCode = sc, !.Handler = hd] :
        r  \in {0 - 1, 0, 100},
        ms \in {<<>>, <<"GET">>},
        hs \in {NoHeaders,
                "Authorization" :> "Bearer some-bearer",
                "Content-Type" :> "text/xml"},
        ct \in {"", "plaintext"},
        sc \in {0, 401, 204},
        hd \in BOOLEAN}

\* the endpoints of the probability test: "/" with FailureRatePercent 50,
\* with and without Expectation, Handler, Headers and FailureHandler
ChaosFixtures ==
    {[Plain("/") EXCEPT !.FailureRatePercent = 50, !.FailureHandler = fh,
                        !.Expectation = ex, !.Handler = hd, !.Headers = hs,
                        !.ContentType = "plaintext", !.StatusCode = 401] :
        fh \in BOOLEAN, ex \in BOOLEAN, hd \in BOOLEAN,
        hs \in {NoHeaders, "Authorization" :> "Bearer some-bearer"}}

Draws      == {0, 49, 50, RandRange - 1}  \* representative results of rand.Intn
ReqPaths   == {"/", "/hello"}             \* paths the client asks for
\* methods the client uses: the standard ones and one that is not
ReqMethods ==
    {"GET", "DELETE", "HEAD", "OPTIONS", "PATCH", "POST", "PUT", "TRACE",
     "CONNECT", "PROPFIND"}

Workers == 1..MaxWorkers
Tester  == MaxWorkers + 1     \* the goroutine of the test, which runs TidyUp

\* the assert message is a lone string: its %s verb is never formatted
MissingArg == "%s"

VARIABLES
    Port,        \* f.Port
    BaseURL,     \* f.BaseURL
    Listener,    \* f.testserver.Listener: "initial" or "bound"
    open,        \* the listening sockets that are open
    Endpoints,   \* f.Endpoints: sequence of endpoint records
    given,       \* per endpoint: MaxFailureCount the caller passed in
    givenMethods,\* per endpoint: Methods the caller passed in
    calls,       \* per endpoint: e.calls
    mutex,       \* per endpoint: e.mutex, 0 = unlocked, else the holder
    phase,       \* "new" | "started" | "running" | "bindfailed" | "closefailed" | "closed"
    workers,     \* per worker: position inside the request handler
    started,     \* number of requests dispatched so far
    overlapped,  \* some request was dispatched while another was in flight
    hist,        \* per endpoint: the finished requests, in order of completion
    pcT,         \* position of TidyUp: "none" | "checking" | "closing" | "draining" | "done"
    tidyIdx,     \* TidyUp: index of the endpoint the range loop is at
    tErrors      \* failures reported through *testing.T

vars == <<Port, BaseURL, Listener, open, Endpoints, given, givenMethods,
          calls, mutex, phase, workers, started, overlapped, hist, pcT,
          tidyIdx, tErrors>>

Idle == [pc |-> "idle", ep |-> 0, tmp |-> 0, steps |-> <<>>]

EPs == DOMAIN Endpoints

Registered == {Endpoints[i].Path : i \in EPs}

\* f.testserver.URL after Start: "http://" + Listener.Addr()
ResolvedURL(port) ==
    IF port = 0 THEN "http://[::]:ephemeral" ELSE "http://[::]:10000"

\* ------------------------------------------------------------ pure code

\* shouldReturnError: failureRatePercent > rand.Intn(100)
shouldReturnErrorOrEqual(failureRatePercent, draw) == failureRatePercent >= draw
shouldReturnError(failureRatePercent, draw) == failureRatePercent > draw

\* the budget half of the handler's condition: e.calls <= e.MaxFailureCount-1
WithinBudgetLoose(c, max) == c <= max + 1
WithinBudget(c, max) == c <= max - 1

\* sync.Mutex.Lock can proceed only on an unlocked mutex
MutexFreeNever(m) == TRUE
MutexFree(m) == m = 0

\* assert.GreaterOrEqual(t, e.calls, 1, ...)
CoverageOKStrict(c) == c > 1
CoverageOK(c) == c >= 1

\* len(e.Methods) == 0: the nine methods, else the list as given
RegisteredMethods(ms) == IF Len(ms) = 0 THEN AllMethods ELSE ms

\* f.router.Match(e.Methods, e.Path, ...): the endpoint whose route answers
\* (method, path), 0 when there is none
RouteAnyMethod(method, path) ==
    IF \E e \in EPs : Endpoints[e].Path = path
    THEN CHOOSE e \in EPs : Endpoints[e].Path = path
    ELSE 0
Route(method, path) ==
    IF \E e \in EPs : Endpoints[e].Path = path
                      /\ method \in Range(Endpoints[e].Methods)
    THEN CHOOSE e \in EPs : Endpoints[e].Path = path
                            /\ method \in Range(Endpoints[e].Methods)
    ELSE 0

\* c.Header(key, value): http.Header.Set
cHeader(h, key, value) ==
    [x \in DOMAIN h \cup {key} |-> IF x = key THEN <<value>> ELSE h[x]]

\* for header, value := range e.Headers { c.Header(header, value) }
ApplyHeadersNone(h, hs) == h
ApplyHeaders(h, hs) ==
    [x \in DOMAIN h \cup DOMAIN hs |-> IF x \in DOMAIN hs THEN <<hs[x]>> ELSE h[x]]

\* gin's render: the content type of the renderer is used only when the
\* response has no Content-Type yet
writeContentType(h, value) ==
    IF "Content-Type" \in DOMAIN h THEN h ELSE cHeader(h, "Content-Type", value)

\* gin, net/http: no body goes out with a 1xx, 204 or 304 status
bodyAllowedForStatus(status) ==
    ~(status \in 100..199 \/ status = 204 \/ status = 304)

\* c.JSON(code, obj), the handler of the examples
cJSON(h, code, obj) ==
    [status |-> code,
     headers |-> writeContentType(h, "application/json; charset=utf-8"),
     body |-> IF bodyAllowedForStatus(code) THEN obj ELSE ""]

\* c.Render(status, render.Data{ContentType: ..., Data: ...})
cRender(h, code, contentType, data) ==
    [status |-> code,
     headers |-> writeContentType(h, contentType),
     body |-> IF bodyAllowedForStatus(code) THEN data ELSE ""]

\* status := e.StatusCode; if status == 0 { status = http.StatusOK }
ResolveStatusRaw(code) == code
ResolveStatus(code) == IF code = 0 THEN StatusOK ELSE code

\* the failure path: e.FailureHandler(c), the handler of the examples; a nil
\* FailureHandler panics and no response is written
FailurePath(ep) ==
    IF ep.FailureHandler
    THEN cJSON(NoHeaders, StatusBadRequest, "{\"error\":\"something bad happened\"}")
    ELSE [status |-> 0, headers |-> NoHeaders, body |-> ""]

\* the normal path: content type, headers, then Handler or the rendering
NormalPath(ep) ==
    LET h1 == cHeader(NoHeaders, "Content-Type",
                      IF ep.ContentType # "" THEN ep.ContentType
                                             ELSE "application/json")
        h2 == ApplyHeaders(h1, ep.Headers)
    IN IF ep.Handler
       THEN cJSON(h2, StatusOK, "{\"hello\":\"world\"}")
       ELSE cRender(h2, ResolveStatus(ep.StatusCode), ep.ContentType,
                    ep.Response)

\* the calls the handler makes after the chaos condition held:
\* e.FailureHandler(c); return
FailureStepsFallThrough(ep) ==
    <<"FailureHandler">>
    \o (IF ep.Expectation THEN <<"Expectation">> ELSE <<>>)
    \o <<"ContentType", "Headers">>
    \o (IF ep.Handler THEN <<"Handler">> ELSE <<"Render">>)
FailureSteps(ep) == <<"FailureHandler">>

\* the calls the handler makes otherwise: Expectation when set, the
\* Content-Type header, the loop over Headers, then Handler and return, or
\* c.Render
NormalStepsHandlerFirst(ep) ==
    IF ep.Handler
    THEN <<"Handler">>
    ELSE (IF ep.Expectation THEN <<"Expectation">> ELSE <<>>)
         \o <<"ContentType", "Headers", "Render">>
NormalSteps(ep) ==
    (IF ep.Expectation THEN <<"Expectation">> ELSE <<>>)
    \o <<"ContentType", "Headers">>
    \o (IF ep.Handler THEN <<"Handler">> ELSE <<"Render">>)

\* ------------------------------------------------------------------ Init

\* New(opts...): an unstarted test server on its own listener, no endpoint
Fresh ==
    /\ BaseURL = ""
    /\ Listener = "initial"
    /\ open = {"initial"}
    /\ Endpoints = <<>>
    /\ given = <<>>
    /\ givenMethods = <<>>
    /\ calls = <<>>
    /\ mutex = <<>>
    /\ phase = "new"
    /\ workers = [w \in Workers |-> Idle]
    /\ started = 0
    /\ overlapped = FALSE
    /\ hist = <<>>
    /\ pcT = "none"
    /\ tidyIdx = 0
    /\ tErrors = <<>>

\* New()
Init == Port = 0 /\ Fresh

\* New() or New(WithPort(10000))
InitSeq == Port \in Ports /\ Fresh

\* ---------------------------------------------------------- registration

\* FakeService.Endpoint(e): append, overwrite MaxFailureCount, fill in the
\* methods, add the route
Endpoint(e) ==
    /\ phase = "new"
    /\ pcT = "none"
    /\ e.Path \notin Registered
    /\ Endpoints' = Append(Endpoints,
                       [e EXCEPT !.MaxFailureCount = DefaultMaxFailureCount,
                                 !.Methods = RegisteredMethods(e.Methods)])
    /\ given' = Append(given, e.MaxFailureCount)
    /\ givenMethods' = Append(givenMethods, e.Methods)
    /\ calls' = Append(calls, 0)
    /\ mutex' = Append(mutex, 0)
    /\ hist' = Append(hist, <<>>)
    /\ UNCHANGED <<Port, BaseURL, Listener, open, phase, workers, started,
                   overlapped, pcT, tidyIdx, tErrors>>

\* FakeService.Run: net.Listen succeeded, the listener of the test server
\* is closed and replaced, testserver.Start() serves from here on
RunOK ==
    /\ phase = "new"
    /\ pcT = "none"
    /\ open' = {"bound"}
    /\ Listener' = "bound"
    /\ phase' = "started"
    /\ UNCHANGED <<Port, BaseURL, Endpoints, given, givenMethods, calls,
                   mutex, workers, started, overlapped, hist, pcT, tidyIdx,
                   tErrors>>

\* FakeService.Run: f.BaseURL = f.testserver.URL, then Run returns
RunSetBaseURLSkipped ==
    /\ phase = "started"
    /\ phase' = "running"
    /\ UNCHANGED <<Port, BaseURL, Listener, open, Endpoints, given,
                   givenMethods, calls, mutex, workers, started, overlapped,
                   hist, pcT, tidyIdx, tErrors>>
RunSetBaseURL ==
    /\ phase = "started"
    /\ BaseURL' = ResolvedURL(Port)
    /\ phase' = "running"
    /\ UNCHANGED <<Port, Listener, open, Endpoints, given, givenMethods,
                   calls, mutex, workers, started, overlapped, hist, pcT,
                   tidyIdx, tErrors>>

\* FakeService.Run: net.Listen failed, t.Errorf and return
RunBindFailGoesOn ==
    /\ phase = "new"
    /\ pcT = "none"
    /\ phase' = "started"
    /\ tErrors' = Append(tErrors, [kind |-> "listen", path |-> ""])
    /\ UNCHANGED <<Port, BaseURL, Listener, open, Endpoints, given,
                   givenMethods, calls, mutex, workers, started, overlapped,
                   hist, pcT, tidyIdx>>
RunBindFail ==
    /\ phase = "new"
    /\ pcT = "none"
    /\ phase' = "bindfailed"
    /\ tErrors' = Append(tErrors, [kind |-> "listen", path |-> ""])
    /\ UNCHANGED <<Port, BaseURL, Listener, open, Endpoints, given,
                   givenMethods, calls, mutex, workers, started, overlapped,
                   hist, pcT, tidyIdx>>

\* FakeService.Run: net.Listen succeeded but closing the listener of the
\* test server failed, t.Errorf and return; the new listener stays open
RunCloseFail ==
    /\ phase = "new"
    /\ pcT = "none"
    /\ open' = open \cup {"bound"}
    /\ phase' = "closefailed"
    /\ tErrors' = Append(tErrors, [kind |-> "close", path |-> ""])
    /\ UNCHANGED <<Port, BaseURL, Listener, Endpoints, given, givenMethods,
                   calls, mutex, workers, started, overlapped, hist, pcT,
                   tidyIdx>>

\* ------------------------------------------------------- request handler

Busy == {w \in Workers : workers[w].pc # "idle"}

\* the server accepts requests once Start() has run; before BaseURL is set
\* only a client that was given the fixed port knows where to send them
Reachable == phase = "running" \/ (phase = "started" /\ Port # 0)

\* a request (method, path) arrives, one of at most limit: the router runs
\* the handler of the endpoint it matches on a goroutine of its own, or
\* answers 404
Arrive(method, path, limit) ==
    /\ Reachable
    /\ started < limit
    /\ started' = started + 1
    /\ LET e == Route(method, path) IN
          IF e = 0
          THEN UNCHANGED <<workers, overlapped>>
          ELSE /\ Busy # Workers
               /\ LET w == CHOOSE x \in Workers \ Busy :
                               \A y \in Workers \ Busy : x <= y
                  IN workers' = [workers EXCEPT
                                    ![w] = [pc |-> "lock", ep |-> e, tmp |-> 0,
                                            steps |-> <<>>]]
               /\ overlapped' = (overlapped \/ Busy # {})
    /\ UNCHANGED <<Port, BaseURL, Listener, open, Endpoints, given,
                   givenMethods, calls, mutex, phase, hist, pcT, tidyIdx,
                   tErrors>>

\* a request of the clients of the short runs
Dispatch(method, path) == Arrive(method, path, MaxRequests)

\* the same, from a client that waits for each response before it sends
\* the next request
DispatchSeq(method, path) == Busy = {} /\ Dispatch(method, path)

\* the loop of the probability test: http.DefaultClient.Do(request), one
\* GET after the other
DispatchSample(path) == Busy = {} /\ Arrive("GET", path, SampleSize)

\* recordCall: e.mutex.Lock(), then the load of e.calls++
recordCallLock(w) ==
    /\ workers[w].pc = "lock"
    /\ LET e == workers[w].ep IN
        /\ MutexFree(mutex[e])
        /\ mutex' = [mutex EXCEPT ![e] = w]
        /\ workers' = [workers EXCEPT ![w].pc = "incr", ![w].tmp = calls[e]]
    /\ UNCHANGED <<Port, BaseURL, Listener, open, Endpoints, given,
                   givenMethods, calls, phase, started, overlapped, hist,
                   pcT, tidyIdx, tErrors>>

\* recordCall: the store of e.calls++, then the deferred e.mutex.Unlock()
recordCallIncrOnNormalPath(w) ==
    /\ workers[w].pc = "incr"
    /\ LET e == workers[w].ep IN
        /\ calls' = [calls EXCEPT ![e] =
                        IF Endpoints[e].FailureRatePercent > 0
                        THEN workers[w].tmp ELSE workers[w].tmp + 1]
        /\ mutex' = [mutex EXCEPT ![e] = 0]
        /\ workers' = [workers EXCEPT ![w].pc = "chaos",
                                       ![w].steps = Append(@, "recordCall")]
    /\ UNCHANGED <<Port, BaseURL, Listener, open, Endpoints, given,
                   givenMethods, phase, started, overlapped, hist, pcT,
                   tidyIdx, tErrors>>
recordCallIncr(w) ==
    /\ workers[w].pc = "incr"
    /\ LET e == workers[w].ep IN
        /\ calls' = [calls EXCEPT ![e] = workers[w].tmp + 1]
        /\ mutex' = [mutex EXCEPT ![e] = 0]
        /\ workers' = [workers EXCEPT ![w].pc = "chaos",
                                       ![w].steps = Append(@, "recordCall")]
    /\ UNCHANGED <<Port, BaseURL, Listener, open, Endpoints, given,
                   givenMethods, phase, started, overlapped, hist, pcT,
                   tidyIdx, tErrors>>

\* the rest of the handler: the chaos condition (its right operand reads
\* e.calls, without the mutex, only when shouldReturnError is true), then
\* either FailureHandler or the normal response
Respond(w, draw) ==
    /\ workers[w].pc = "chaos"
    /\ LET e     == workers[w].ep
           ep    == Endpoints[e]
           roll  == shouldReturnError(ep.FailureRatePercent, draw)
           seen  == IF roll THEN calls[e] ELSE 0
           chaos == roll /\ WithinBudget(calls[e], ep.MaxFailureCount)
           out   == IF chaos
                    THEN (IF ep.FailureHandler THEN "fail" ELSE "panic")
                    ELSE "ok"
           resp  == IF chaos THEN FailurePath(ep) ELSE NormalPath(ep)
           steps == workers[w].steps
                    \o (IF chaos THEN FailureSteps(ep) ELSE NormalSteps(ep))
       IN hist' = [hist EXCEPT ![e] = Append(@, [out |-> out, seen |-> seen,
                                                 roll |-> roll,
                                                 locked |-> mutex[e] = w,
                                                 pre |-> workers[w].tmp,
                                                 resp |-> resp,
                                                 steps |-> steps])]
    /\ workers' = [workers EXCEPT ![w] = Idle]
    /\ UNCHANGED <<Port, BaseURL, Listener, open, Endpoints, given,
                   givenMethods, calls, mutex, phase, started, overlapped,
                   pcT, tidyIdx, tErrors>>

\* ---------------------------------------------------------------- TidyUp

\* after a check the loop goes on to the next endpoint, failed or not:
\* assert records the failure and returns
AfterCheckFailFast(ok, last) ==
    IF ~ok THEN "done" ELSE IF last THEN "closing" ELSE "checking"
AfterCheck(ok, last) == IF last THEN "closing" ELSE "checking"

\* TidyUp is entered: t.Log, then the range loop starts
TidyUpStart ==
    /\ pcT = "none"
    /\ phase \notin {"new", "started"}
    /\ pcT' = IF Len(Endpoints) = 0 THEN "closing" ELSE "checking"
    /\ tidyIdx' = 1
    /\ UNCHANGED <<Port, BaseURL, Listener, open, Endpoints, given,
                   givenMethods, calls, mutex, phase, workers, started,
                   overlapped, hist, tErrors>>

\* one iteration of the loop: assert.GreaterOrEqual(t, e.calls, 1, ...)
TidyCheck ==
    /\ pcT = "checking"
    /\ tErrors' = IF CoverageOK(calls[tidyIdx])
                  THEN tErrors
                  ELSE Append(tErrors, [kind |-> "coverage",
                                        path |-> MissingArg])
    /\ tidyIdx' = tidyIdx + 1
    /\ pcT' = AfterCheck(CoverageOK(calls[tidyIdx]), tidyIdx = Len(Endpoints))
    /\ UNCHANGED <<Port, BaseURL, Listener, open, Endpoints, given,
                   givenMethods, calls, mutex, phase, workers, started,
                   overlapped, hist>>

\* f.testserver.Close(): the listener is closed, no request is accepted
TidyClose ==
    /\ pcT = "closing"
    /\ open' = open \ {Listener}
    /\ phase' = "closed"
    /\ pcT' = "draining"
    /\ UNCHANGED <<Port, BaseURL, Listener, Endpoints, given, givenMethods,
                   calls, mutex, workers, started, overlapped, hist, tidyIdx,
                   tErrors>>

\* f.testserver.Close() returns once the outstanding requests are done
TidyDone ==
    /\ pcT = "draining"
    /\ Busy = {}
    /\ pcT' = "done"
    /\ UNCHANGED <<Port, BaseURL, Listener, open, Endpoints, given,
                   givenMethods, calls, mutex, phase, workers, started,
                   overlapped, hist, tidyIdx, tErrors>>

\* ------------------------------------------------------------------ Next

\* concurrent clients sending GET requests, the chaos fixtures
Next ==
    \/ \E e \in Fixtures : Endpoint(e)
    \/ RunOK
    \/ RunSetBaseURL
    \/ RunBindFail
    \/ RunCloseFail
    \/ \E p \in ReqPaths : Dispatch("GET", p)
    \/ \E w \in Workers : recordCallLock(w)
    \/ \E w \in Workers : recordCallIncr(w)
    \/ \E w \in Workers, d \in Draws : Respond(w, d)
    \/ TidyUpStart
    \/ TidyCheck
    \/ TidyClose
    \/ TidyDone

Spec == Init /\ [][Next]_vars

\* a sequential client, every rendering option, either port
NextSeq ==
    \/ \E e \in SeqFixtures : Endpoint(e)
    \/ RunOK
    \/ RunSetBaseURL
    \/ RunBindFail
    \/ RunCloseFail
    \/ \E m \in ReqMethods, p \in ReqPaths : DispatchSeq(m, p)
    \/ \E w \in Workers : recordCallLock(w)
    \/ \E w \in Workers : recordCallIncr(w)
    \/ \E w \in Workers, d \in Draws : Respond(w, d)
    \/ TidyUpStart
    \/ TidyCheck
    \/ TidyClose
    \/ TidyDone

SpecSeq == InitSeq /\ [][NextSeq]_vars

\* the probability test: ten GET requests one after the other to an
\* endpoint with FailureRatePercent 50
NextChaos ==
    \/ \E e \in ChaosFixtures : Endpoint(e)
    \/ RunOK
    \/ RunSetBaseURL
    \/ DispatchSample("/")
    \/ \E w \in Workers : recordCallLock(w)
    \/ \E w \in Workers : recordCallIncr(w)
    \/ \E w \in Workers, d \in Draws : Respond(w, d)
    \/ TidyUpStart
    \/ TidyCheck
    \/ TidyClose
    \/ TidyDone

SpecChaos == Init /\ [][NextChaos]_vars

\* ---------------------------------------------------------------- claims

Chaos(h)  == {i \in DOMAIN h : h[i].out # "ok"}
Normal(h) == {i \in DOMAIN h : h[i].out = "ok"}
InFlight(e) == {w \in Workers : workers[w].pc # "idle" /\ workers[w].ep = e}

\* the i-th of n requests issued one after another reads calls = i
SequentialFailures(n, max) == Cardinality({i \in 1..n : WithinBudget(i, max)})

\* C1: with FailureRatePercent = 100 and budget k, sequential requests
\* 1..k take the failure path and every later request the normal path.
C1_FirstKFailThenNormal ==
    \A e \in EPs :
        (~overlapped /\ Endpoints[e].FailureRatePercent = 100
                     /\ Endpoints[e].FailureHandler)
        => \A i \in DOMAIN hist[e] :
              hist[e][i].out = IF i <= Endpoints[e].MaxFailureCount
                               THEN "fail" ELSE "ok"

\* C2: whatever the rate and the draws, more than MaxFailureCount sequential
\* requests to one endpoint include at least one normal-path response.
C2_EventualSuccess ==
    \A e \in EPs :
        (~overlapped /\ Len(hist[e]) > Endpoints[e].MaxFailureCount)
        => Normal(hist[e]) # {}

C2_Witness ==
    \E e \in EPs :
        /\ ~overlapped
        /\ Endpoints[e].FailureRatePercent = 100
        /\ Len(hist[e]) > Endpoints[e].MaxFailureCount
        /\ Chaos(hist[e]) # {}
        /\ Normal(hist[e]) # {}

\* C3: an explicit MaxFailureCount survives registration; the default 3 is
\* used only when the caller left it 0.
C3_ExplicitBudgetKept ==
    \A e \in EPs :
        Endpoints[e].MaxFailureCount =
            IF given[e] = 0 THEN DefaultMaxFailureCount ELSE given[e]

\* C4: no two requests are admitted to the failure path after checking the
\* budget against the same call-count value.
C4_NoSharedBudgetSlot ==
    \A e \in EPs : \A i, j \in Chaos(hist[e]) :
        i # j => hist[e][i].seen # hist[e][j].seen

\* C5: in every state the number of failure-path outcomes of an endpoint is
\* at most its MaxFailureCount.
C5_FailuresWithinBudget ==
    \A e \in EPs : Cardinality(Chaos(hist[e])) <= Endpoints[e].MaxFailureCount

C5_Witness ==
    \E e \in EPs :
        /\ overlapped
        /\ Endpoints[e].FailureRatePercent = 100
        /\ Cardinality(Chaos(hist[e])) = Endpoints[e].MaxFailureCount - 1
        /\ Cardinality(Normal(hist[e])) >= 2

\* C6: with FailureRatePercent = 100 and n >= budget finished requests the
\* number of failure-path outcomes is the one of the sequential run, in
\* every interleaving.
C6_RepeatableFailureCount ==
    \A e \in EPs :
        (/\ Endpoints[e].FailureRatePercent = 100
         /\ InFlight(e) = {}
         /\ Len(hist[e]) >= Endpoints[e].MaxFailureCount)
        => Cardinality(Chaos(hist[e])) =
              SequentialFailures(Len(hist[e]), Endpoints[e].MaxFailureCount)

\* C7: calls never decreases and always equals the number of requests that
\* have passed recordCall, whichever path they then take.
Counted(e) ==
    calls[e] = Len(hist[e])
               + Cardinality({w \in InFlight(e) : workers[w].pc = "chaos"})

C7_NoLostUpdates ==
    [][\A e \in DOMAIN calls : calls'[e] >= calls[e] /\ Counted(e)']_vars

C7_Witness ==
    \E e \in EPs :
        /\ overlapped
        /\ InFlight(e) = {}
        /\ calls[e] >= 3
        /\ Chaos(hist[e]) # {}
        /\ Normal(hist[e]) # {}

\* C8: every read of calls is made by the holder of the endpoint's mutex:
\* the budget comparison of the handler and the coverage check of TidyUp.
C8_ReadsHoldMutex ==
    /\ \A e \in EPs : \A i \in DOMAIN hist[e] :
          hist[e][i].seen # 0 => hist[e][i].locked
    /\ pcT = "checking" => mutex[tidyIdx] = Tester

\* C9: an endpoint with FailureRatePercent > 0 and no FailureHandler is
\* reported when it is registered or the service starts, and no request
\* invokes the absent handler.
Misconfigured(e) ==
    Endpoints[e].FailureRatePercent > 0 /\ ~Endpoints[e].FailureHandler

C9_MissingHandlerSurfaced ==
    /\ \A e \in EPs : \A i \in DOMAIN hist[e] : hist[e][i].out # "panic"
    /\ (phase = "running" /\ \E e \in EPs : Misconfigured(e))
       => \E k \in DOMAIN tErrors : tErrors[k].kind = "config"

\* C10: each iteration of TidyUp's loop reports exactly one failure when the
\* endpoint's call count is 0 and none when it is at least 1.
C10_OneFailurePerUncalled ==
    [][(pcT = "checking" /\ tidyIdx' # tidyIdx)
       => /\ calls[tidyIdx] = 0 =>
               /\ Len(tErrors') = Len(tErrors) + 1
               /\ tErrors'[Len(tErrors')].kind = "coverage"
          /\ calls[tidyIdx] >= 1 => tErrors' = tErrors]_vars

C10_Witness ==
    /\ pcT = "done"
    /\ Len(Endpoints) = 2
    /\ Cardinality({e \in EPs : calls[e] = 0}) = 1
    /\ Busy = {}
    /\ Cardinality({k \in DOMAIN tErrors : tErrors[k].kind = "coverage"}) = 1


\* C11: TidyUp always closes the listener of the test server, whether or
\* not a coverage check failed, and closes it only after every endpoint has
\* been checked.
C11_ListenerAlwaysClosed ==
    /\ pcT = "done" => Listener \notin open
    /\ Listener \notin open => tidyIdx = Len(Endpoints) + 1

C11_Witness ==
    /\ pcT = "done"
    /\ Listener \notin open
    /\ Len(Endpoints) = 2
    /\ \E k \in DOMAIN tErrors : tErrors[k].kind = "coverage"

\* C12: each coverage failure carries the Path of the uncalled endpoint.
C12_FailureNamesPath ==
    \A k \in DOMAIN tErrors :
        tErrors[k].kind = "coverage" => tErrors[k].path \in Registered

\* the nine standard methods an endpoint without Methods answers
StandardMethods ==
    {"GET", "DELETE", "HEAD", "OPTIONS", "PATCH", "POST", "PUT", "TRACE",
     "CONNECT"}

\* (method, path) is what some registered endpoint was declared to answer
Declared(method, path) ==
    \E e \in EPs :
        /\ Endpoints[e].Path = path
        /\ IF givenMethods[e] = <<>> THEN method \in StandardMethods
                                     ELSE method \in Range(givenMethods[e])

\* a step hands a request to the handler of endpoint e
Served(e) ==
    \E w \in Workers : /\ workers[w].pc = "idle"
                       /\ workers'[w].pc = "lock"
                       /\ workers'[w].ep = e

\* C13: a request that no registered endpoint was declared to answer runs
\* no handler and changes no call count; a declared one reaches the handler.
C13_UnmatchedIsNotFound ==
    [][\A m \in ReqMethods, p \in ReqPaths :
          Dispatch(m, p) =>
             IF Declared(m, p)
             THEN \E e \in EPs : Endpoints[e].Path = p /\ Served(e)
             ELSE UNCHANGED <<workers, calls, mutex, hist, tErrors>>]_vars

C13_Witness ==
    /\ Len(Endpoints) = 1
    /\ givenMethods[1] = <<"GET">>
    /\ Len(hist[1]) >= 1
    /\ Busy = {}
    /\ started > Len(hist[1])
    /\ calls[1] = Len(hist[1])

\* C14 as claimed: every response of an endpoint, failure path included,
\* carries each configured header exactly once with the configured value.
C14_HeadersOnEveryResponse ==
    \A e \in EPs : \A i \in DOMAIN hist[e] :
        \A k \in DOMAIN Endpoints[e].Headers :
            /\ k \in DOMAIN hist[e][i].resp.headers
            /\ hist[e][i].resp.headers[k] = <<Endpoints[e].Headers[k]>>

\* C14 amended: every normal-path response, by the default rendering or by
\* an override Handler, carries each configured header exactly once with the
\* configured value; on the failure path the configured headers are not
\* applied.
C14_HeadersOnNormalResponses ==
    \A e \in EPs : \A i \in DOMAIN hist[e] :
        \A k \in DOMAIN Endpoints[e].Headers :
            IF hist[e][i].out = "ok"
            THEN /\ k \in DOMAIN hist[e][i].resp.headers
                 /\ hist[e][i].resp.headers[k] = <<Endpoints[e].Headers[k]>>
            ELSE \/ k \notin DOMAIN hist[e][i].resp.headers
                 \/ hist[e][i].resp.headers[k] # <<Endpoints[e].Headers[k]>>

C14_Witness ==
    \E e \in EPs :
        /\ Endpoints[e].Handler
        /\ "Authorization" \in DOMAIN Endpoints[e].Headers
        /\ \E i \in DOMAIN hist[e] :
              /\ hist[e][i].out = "ok"
              /\ hist[e][i].resp.headers["Authorization"] = <<"Bearer some-bearer">>
        /\ \E i \in DOMAIN hist[e] :
              /\ hist[e][i].out = "fail"
              /\ "Authorization" \notin DOMAIN hist[e][i].resp.headers

\* C15 as claimed: on the normal path without Handler the status is
\* StatusCode or 200, the Content-Type is ContentType or application/json,
\* the body is Response.
C15_ConfiguredResponse ==
    \A e \in EPs : \A i \in DOMAIN hist[e] :
        (hist[e][i].out = "ok" /\ ~Endpoints[e].Handler) =>
            /\ hist[e][i].resp.status =
                  IF Endpoints[e].StatusCode = 0 THEN 200
                  ELSE Endpoints[e].StatusCode
            /\ hist[e][i].resp.headers["Content-Type"] =
                  <<IF Endpoints[e].ContentType = "" THEN "application/json"
                    ELSE Endpoints[e].ContentType>>
            /\ hist[e][i].resp.body = Endpoints[e].Response

\* C15 amended: the same, except that a Content-Type entry of Headers
\* replaces the content type, and that no body is written with a status
\* that admits none (1xx, 204, 304).
C15_ConfiguredResponseAmended ==
    \A e \in EPs : \A i \in DOMAIN hist[e] :
        (hist[e][i].out = "ok" /\ ~Endpoints[e].Handler) =>
            /\ hist[e][i].resp.status =
                  IF Endpoints[e].StatusCode = 0 THEN 200
                  ELSE Endpoints[e].StatusCode
            /\ hist[e][i].resp.headers["Content-Type"] =
                  <<IF "Content-Type" \in DOMAIN Endpoints[e].Headers
                    THEN Endpoints[e].Headers["Content-Type"]
                    ELSE IF Endpoints[e].ContentType = ""
                         THEN "application/json"
                         ELSE Endpoints[e].ContentType>>
            /\ hist[e][i].resp.body =
                  IF \/ hist[e][i].resp.status < 200
                     \/ hist[e][i].resp.status \in {204, 304}
                  THEN "" ELSE Endpoints[e].Response

C15_Witness ==
    \E e \in EPs :
        /\ ~Endpoints[e].Handler
        /\ Endpoints[e].StatusCode = 0
        /\ Endpoints[e].ContentType = ""
        /\ Endpoints[e].Headers = NoHeaders
        /\ \E i \in DOMAIN hist[e] :
              /\ hist[e][i].out = "ok"
              /\ hist[e][i].resp.status = 200
              /\ hist[e][i].resp.headers["Content-Type"] = <<"application/json">>
              /\ hist[e][i].resp.body = "{}"

\* C16: an endpoint with FailureRatePercent <= 0 never takes the failure
\* path, whatever the draw and the call count.
C16_NonPositiveRateNeverFails ==
    \A e \in EPs :
        Endpoints[e].FailureRatePercent <= 0 => Chaos(hist[e]) = {}

C16_Witness ==
    \E e \in EPs :
        /\ Endpoints[e].FailureRatePercent < 0
        /\ Len(hist[e]) >= 2
        /\ calls[e] <= Endpoints[e].MaxFailureCount - 1

\* C17: an endpoint registered without Methods answers each of the nine
\* standard methods on its path; one registered with Methods answers exactly
\* those and keeps its list.
C17_MethodsAnswered ==
    [][\A m \in ReqMethods, p \in ReqPaths :
          Dispatch(m, p) =>
             \A e \in EPs :
                Endpoints[e].Path = p =>
                   IF givenMethods[e] = <<>>
                   THEN m \in StandardMethods => Served(e)
                   ELSE /\ Served(e) <=> m \in Range(givenMethods[e])
                        /\ Endpoints[e].Methods = givenMethods[e]]_vars

C17_Witness ==
    /\ Len(Endpoints) = 1
    /\ givenMethods[1] = <<>>
    /\ Range(Endpoints[1].Methods) = StandardMethods
    /\ Len(Endpoints[1].Methods) = 9
    /\ Len(hist[1]) >= 2

\* C18: when Run cannot bind the port it reports the failure once and
\* stops: the server is never started, BaseURL stays empty, no request is
\* served.
ListenFailures == {k \in DOMAIN tErrors : tErrors[k].kind = "listen"}

C18_BindFailureAborts ==
    ListenFailures # {} =>
        /\ Cardinality(ListenFailures) = 1
        /\ phase \in {"bindfailed", "closed"}
        /\ Listener = "initial"
        /\ BaseURL = ""
        /\ started = 0
        /\ Busy = {}

C18_Witness ==
    /\ Port = FixedPort
    /\ ListenFailures # {}
    /\ Len(Endpoints) >= 1
    /\ pcT = "done"

\* C19 as claimed: BaseURL is empty before the server has started, is the
\* resolved address once Run has returned, and no request is served while
\* it is empty.
RunReturnedOK == phase = "running" \/ (phase = "closed" /\ Listener = "bound")

C20_DecisionRule ==
    \A e \in EPs : \A i \in DOMAIN hist[e] :
        hist[e][i].out # "ok"
        <=> (hist[e][i].roll /\ hist[e][i].pre < Endpoints[e].MaxFailureCount)

\* the number of times the handler made the call x while serving a request
Count(steps, x) == Cardinality({i \in DOMAIN steps : steps[i] = x})

\* every call a comes before every call b
Before(steps, a, b) ==
    \A i, j \in DOMAIN steps : (steps[i] = a /\ steps[j] = b) => i < j

\* the calls that belong to the normal path only
NormalOnly == {"Expectation", "ContentType", "Headers", "Handler", "Render"}

\* C21: a request for which chaos triggers calls FailureHandler exactly once
\* and nothing after it: no Expectation, no content type, no configured
\* header, no override Handler, no default status or body.
C21_FailureHandlerOnly ==
    \A e \in EPs : \A i \in Chaos(hist[e]) :
        LET r == hist[e][i] IN
            /\ Count(r.steps, "FailureHandler") = 1
            /\ r.steps[Len(r.steps)] = "FailureHandler"
            /\ \A x \in NormalOnly : Count(r.steps, x) = 0
            /\ \A k \in DOMAIN Endpoints[e].Headers :
                  k \notin DOMAIN r.resp.headers
            /\ \A k \in DOMAIN r.resp.headers :
                  r.resp.headers[k] # <<Endpoints[e].ContentType>>
            /\ r.resp.status # ResolveStatus(Endpoints[e].StatusCode)
            /\ r.resp.body # Endpoints[e].Response

C21_Witness ==
    \E e \in EPs :
        /\ Endpoints[e].Expectation
        /\ Endpoints[e].Handler
        /\ Endpoints[e].FailureHandler
        /\ "Authorization" \in DOMAIN Endpoints[e].Headers
        /\ \E i \in Chaos(hist[e]) : hist[e][i].resp.status = StatusBadRequest
        /\ \E i \in Normal(hist[e]) :
              /\ Count(hist[e][i].steps, "Expectation") = 1
              /\ "Authorization" \in DOMAIN hist[e][i].resp.headers

\* C22: on the normal path the call is recorded first, then Expectation is
\* called once when set (never otherwise), then the content type is applied,
\* then the configured headers, then either Handler alone, whose response
\* goes out instead of the default status and body, or the default rendering.
C22_NormalPathOrder ==
    \A e \in EPs : \A i \in Normal(hist[e]) :
        LET r  == hist[e][i]
            ep == Endpoints[e]
        IN  /\ r.steps[1] = "recordCall"
            /\ calls[e] >= r.pre + 1
            /\ Cardinality(Range(r.steps)) = Len(r.steps)
            /\ "Expectation" \in Range(r.steps) <=> ep.Expectation
            /\ {"ContentType", "Headers"} \subseteq Range(r.steps)
            /\ "FailureHandler" \notin Range(r.steps)
            /\ Before(r.steps, "recordCall", "Expectation")
            /\ Before(r.steps, "Expectation", "ContentType")
            /\ Before(r.steps, "ContentType", "Headers")
            /\ Before(r.steps, "Headers", r.steps[Len(r.steps)])
            /\ r.steps[Len(r.steps)] = IF ep.Handler THEN "Handler" ELSE "Render"
            /\ "Render" \in Range(r.steps) <=> ~ep.Handler
            /\ IF ep.Handler
               THEN r.resp.status # ep.StatusCode /\ r.resp.body # ep.Response
               ELSE r.resp.status = ep.StatusCode /\ r.resp.body = ep.Response

C22_Witness ==
    /\ \E e \in EPs :
          /\ Endpoints[e].Expectation
          /\ Endpoints[e].Handler
          /\ \E i \in Normal(hist[e]) :
                hist[e][i].steps = <<"recordCall", "Expectation", "ContentType",
                                     "Headers", "Handler">>
    /\ Len(hist[1]) >= 3
    /\ Chaos(hist[1]) # {}

\* C23: an endpoint with FailureRatePercent = 50 and the default budget
\* answers at least one of ten requests sent one after the other on the
\* failure path.
C23_FailureAmongTen ==
    \A e \in EPs :
        (/\ Endpoints[e].FailureRatePercent = 50
         /\ Endpoints[e].FailureHandler
         /\ given[e] = 0
         /\ Len(hist[e]) = SampleSize)
        => Chaos(hist[e]) # {}

\* C24: the coverage check of TidyUp passes for an endpoint that has a
\* request at or past the chaos decision, also when every one of its
\* requests took the failure path.
C24_FailuresCountAsCalls ==
    [][(/\ pcT = "checking"
        /\ tidyIdx' # tidyIdx
        /\ \/ Len(hist[tidyIdx]) >= 1
           \/ \E w \in InFlight(tidyIdx) : workers[w].pc = "chaos")
       => tErrors' = tErrors]_vars

C24_Witness ==
    /\ pcT = "done"
    /\ Len(Endpoints) = 1
    /\ Len(hist[1]) = 2
    /\ Normal(hist[1]) = {}
    /\ tErrors = <<>>

====
